---- MODULE Spec2Model ----
(***************************************************************************)
(* A model of bot.py, the Fortnite item-shop Telegram bot                  *)
(* (class FortniteShopBot): the catalog fetch with its fixture fallback,   *)
(* the pure aggregation and rendering functions, and the command and       *)
(* button handlers as they edit chat messages.                             *)
(*                                                                         *)
(* Python values are modelled by records.  A JSON document is a Doc        *)
(* record, an item an item record with a presence flag per key, a chat     *)
(* message a record of its text (the rendered value, kept structured) and  *)
(* its inline keyboard (rows of callback identifiers).  Message texts are  *)
(* Russian in the source; the model names each fixed text by an ASCII tag. *)
(*                                                                         *)
(* The host (python-telegram-bot's Application, built with its defaults at *)
(* bot.py:29) awaits one handler at a time; the handlers wrapped in        *)
(* asyncio.create_task (bot.py:645-648) return a task the host awaits as   *)
(* well.  Only the scheduled job runs beside a handler.  A handler is      *)
(* suspended at each await of a transport call; one action of the model is *)
(* the code from one such await to the next.  get_shop_data holds no await *)
(* of its own (requests.get blocks), so awaiting it does not suspend.      *)
(*                                                                         *)
(* Spec is the bot at work, FairSpec the same with the fairness of the     *)
(* cron trigger, the scheduler and the host; ConcSpec runs the handlers    *)
(* under a host that starts them side by side; PureSpec calls the pure     *)
(* aggregation and rendering functions on snapshots drawn from bounded     *)
(* item lists.                                                             *)
(***************************************************************************)
EXTENDS Integers, Sequences, FiniteSets, TLC

\* The number of chat messages the model tracks at a time.
MaxMsgs == 1

\* The number of handlers a host that dispatches in parallel runs at a time.
MaxTasks == 2

VARIABLES
    last_shop_data,   \* self.last_shop_data (bot.py:31)
    chat,             \* the tracked messages of the chat: slot -> message
    task,             \* the handler the host is running, or the last one it ran
    night,            \* the scheduled job: "idle", or how its firing ended
    input,            \* the arguments of a call of a pure function
    out,              \* the value that call returned
    tasks             \* the handlers a host that dispatches in parallel runs

vars == <<last_shop_data, chat, task, night, input, out, tasks>>

----------------------------------------------------------------------------
(* Python values *)

\* An item dict of the catalog; a key that is absent has its flag FALSE.
Item(n, p, t) ==
    [hasName |-> TRUE, name |-> n, hasPrice |-> TRUE, price |-> p,
     hasType |-> TRUE, type |-> t]

NoPrice(n, t) ==
    [hasName |-> TRUE, name |-> n, hasPrice |-> FALSE, price |-> 0,
     hasType |-> TRUE, type |-> t]

NoName(p, t) ==
    [hasName |-> FALSE, name |-> "", hasPrice |-> TRUE, price |-> p,
     hasType |-> TRUE, type |-> t]

\* A section dict: {"items": [...]}, or a dict without that key.
Section(its) == [hasItems |-> TRUE, items |-> its]
NoItemsKey == [hasItems |-> FALSE, items |-> <<>>]

\* A date value.  form says what kind of value the document carries:
\*   "iso_long"  a string longer than 10 characters whose first 10 parse as
\*               %Y-%m-%d, such as "2024-05-01T00:00:00Z";
\*   "iso_short" the 10 characters "2024-05-01";
\*   "bad_long"  a string longer than 10 characters that does not parse;
\*   "bad_short" a string of at most 10 characters that is no date;
\*   "number"    a value that is not a string;
\*   "display"   the result of strftime("%d.%m.%Y") for the day.
DateVal(f, d) == [form |-> f, day |-> d]

\* The day datetime.now() falls on.
Today == "today"

IsStr(date) == date.form # "number"
LongerThan10(date) == date.form \in {"iso_long", "bad_long"}
ParsesAsIso(date) == date.form = "iso_long"

\* A parsed JSON body / a snapshot.  kind: "none" (None, JSON null), "list",
\* "dict", or "notjson" (a body response.json() raises on).  For a dict,
\* `wrapped` says that it has the key 'data' (whose value is then the dict the
\* date/daily/featured fields describe; otherwise they describe the dict
\* itself) and `extra` counts its other keys; for a list `extra` is its length.
Doc(k, w, x, hd, d, hdl, dl, hf, f) ==
    [kind |-> k, wrapped |-> w, extra |-> x,
     hasDate |-> hd, date |-> d,
     hasDaily |-> hdl, daily |-> dl,
     hasFeatured |-> hf, featured |-> f]

NoDate == DateVal("display", "")

NoneValue == Doc("none", FALSE, 0, FALSE, NoDate, FALSE, <<>>, FALSE, <<>>)
NotJson == Doc("notjson", FALSE, 0, FALSE, NoDate, FALSE, <<>>, FALSE, <<>>)
EmptyDict == Doc("dict", FALSE, 0, FALSE, NoDate, FALSE, <<>>, FALSE, <<>>)
NonEmptyList == Doc("list", FALSE, 1, FALSE, NoDate, FALSE, <<>>, FALSE, <<>>)

\* Python truthiness of a snapshot (`if data:`).
Truthy(data) ==
    CASE data.kind = "none" -> FALSE
      [] data.kind = "list" -> data.extra > 0
      [] data.kind = "dict" ->
            \/ data.wrapped
            \/ data.extra > 0
            \/ data.hasDate \/ data.hasDaily \/ data.hasFeatured
      [] OTHER -> FALSE

\* get_test_data: the built-in fixture snapshot.
get_test_data ==
    Doc("dict", TRUE, 0, TRUE, DateVal("iso_short", Today),
        TRUE,
        << Section(<< Item("Sung Jin-Woo", 1800, "outfit"),
                      Item("Sung Jin-Woo (Shadow Monarch)", 1800, "outfit"),
                      Item("Cha Hae-In", 1800, "outfit"),
                      Item("Blood-Red Commander Igris", 1800, "outfit"),
                      Item("Kaisel (Glider)", 1200, "glider"),
                      Item("Demon King's Longsword (Pickaxe)", 800, "pickaxe"),
                      Item("Kamish's Wrath (Wrap)", 500, "wrap") >>),
           Section(<< Item("Black Dino Ranger", 1500, "outfit"),
                      Item("White Dino Ranger", 1500, "outfit"),
                      Item("Dino Thunder Bundle", 2400, "bundle"),
                      Item("Brachio Staff (Pickaxe)", 800, "pickaxe"),
                      Item("Dragon Sword (Pickaxe)", 800, "pickaxe"),
                      Item("Brachio Zord (Back Bling)", 500, "backbling") >>) >>,
        TRUE,
        << Section(<< Item("Mighty Morphing Power Rangers (LEGO)", 1800, "outfit"),
                      Item("Skull Raider", 1200, "outfit"),
                      Item("The Foundation", 1500, "outfit"),
                      Item("Venom Fang & Knight Killer (Pickaxe)", 800, "pickaxe"),
                      Item("Wings of Light (Back Bling)", 400, "backbling"),
                      Item("Shadow Summoner (Emote)", 400, "emote"),
                      Item("S-Rank Scent (Emote)", 400, "emote") >>) >>)

\* Other snapshots the origin may answer with.
\* Of the expected shape, with a duplicate name, price ties, and a section
\* without the key 'items'.
CatalogA ==
    Doc("dict", TRUE, 1, TRUE, DateVal("iso_long", "d1"),
        TRUE,
        << Section(<< Item("Renegade Raider", 1200, "outfit"),
                      Item("Renegade Raider", 800, "outfit"),
                      Item("Rare Epic Axe", 800, "pickaxe") >>) >>,
        TRUE,
        << Section(<< Item("Aerial Glider", 1200, "glider") >>), NoItemsKey >>)

\* Of the expected shape, with no item at all.
EmptyCatalog ==
    Doc("dict", TRUE, 1, TRUE, DateVal("iso_long", "d1"),
        TRUE, <<>>, TRUE, << Section(<<>>) >>)

\* An item without 'price' and an item without 'name'.
BrokenItems ==
    Doc("dict", TRUE, 1, TRUE, DateVal("iso_long", "d1"),
        TRUE,
        << Section(<< NoPrice("Free Spray", "spray"), NoName(500, "wrap") >>) >>,
        TRUE, <<>>)

\* {"status": 200, "data": {"date": ...}}: neither 'daily' nor 'featured'.
NoSections ==
    Doc("dict", TRUE, 1, TRUE, DateVal("iso_long", "d1"),
        FALSE, <<>>, FALSE, <<>>)

----------------------------------------------------------------------------
(* get_shop_data *)

StatusOK == 200

\* A status other than 200 the origin answers with.
OtherStatuses == {503}

\* What one call of requests.get can come to.
Exception == [kind |-> "exception", status |-> 0, body |-> NoneValue]
Timeout == [kind |-> "timeout", status |-> 0, body |-> NoneValue]
Response(st, b) == [kind |-> "response", status |-> st, body |-> b]
NoOrigin == [kind |-> "nocall", status |-> 0, body |-> NoneValue]

Bodies ==
    {CatalogA, EmptyCatalog, BrokenItems, NoSections,
     EmptyDict, NoneValue, NonEmptyList, NotJson}

Origins ==
    {Exception, Timeout}
        \cup {Response(StatusOK, b) : b \in Bodies}
        \cup {Response(st, CatalogA) : st \in OtherStatuses}

\* get_shop_data without the test of the status: any body that parses is
\* returned.
get_shop_data_any_status(origin) ==
    IF origin.kind = "response"
    THEN IF origin.body.kind = "notjson"
         THEN get_test_data
         ELSE origin.body
    ELSE get_test_data

\* The snapshot get_shop_data returns for an origin outcome.  requests.get
\* raising (transport failure, timeout) and response.json() raising are both
\* caught by `except Exception`.
get_shop_data(origin) ==
    IF origin.kind = "response"
    THEN IF origin.status = StatusOK
         THEN IF origin.body.kind = "notjson"
              THEN get_test_data
              ELSE origin.body
         ELSE get_test_data
    ELSE get_test_data

----------------------------------------------------------------------------
(* Strings.  TLC's strings are atomic, so each string of the model has its *)
(* characters listed here; lower() and `in` work on the lists.             *)

Chars(s) ==
    CASE s = "Sung Jin-Woo" ->
        << "S", "u", "n", "g", " ", "J", "i", "n", "-", "W", "o", "o" >>
      [] s = "Sung Jin-Woo (Shadow Monarch)" ->
        << "S", "u", "n", "g", " ", "J", "i", "n", "-", "W", "o", "o", " ",
           "(", "S", "h", "a", "d", "o", "w", " ", "M", "o", "n", "a", "r",
           "c", "h", ")" >>
      [] s = "Cha Hae-In" ->
        << "C", "h", "a", " ", "H", "a", "e", "-", "I", "n" >>
      [] s = "Blood-Red Commander Igris" ->
        << "B", "l", "o", "o", "d", "-", "R", "e", "d", " ", "C", "o", "m",
           "m", "a", "n", "d", "e", "r", " ", "I", "g", "r", "i", "s" >>
      [] s = "Kaisel (Glider)" ->
        << "K", "a", "i", "s", "e", "l", " ", "(", "G", "l", "i", "d", "e",
           "r", ")" >>
      [] s = "Demon King's Longsword (Pickaxe)" ->
        << "D", "e", "m", "o", "n", " ", "K", "i", "n", "g", "'", "s", " ",
           "L", "o", "n", "g", "s", "w", "o", "r", "d", " ", "(", "P", "i",
           "c", "k", "a", "x", "e", ")" >>
      [] s = "Kamish's Wrath (Wrap)" ->
        << "K", "a", "m", "i", "s", "h", "'", "s", " ", "W", "r", "a", "t",
           "h", " ", "(", "W", "r", "a", "p", ")" >>
      [] s = "Black Dino Ranger" ->
        << "B", "l", "a", "c", "k", " ", "D", "i", "n", "o", " ", "R", "a",
           "n", "g", "e", "r" >>
      [] s = "White Dino Ranger" ->
        << "W", "h", "i", "t", "e", " ", "D", "i", "n", "o", " ", "R", "a",
           "n", "g", "e", "r" >>
      [] s = "Dino Thunder Bundle" ->
        << "D", "i", "n", "o", " ", "T", "h", "u", "n", "d", "e", "r", " ",
           "B", "u", "n", "d", "l", "e" >>
      [] s = "Brachio Staff (Pickaxe)" ->
        << "B", "r", "a", "c", "h", "i", "o", " ", "S", "t", "a", "f", "f",
           " ", "(", "P", "i", "c", "k", "a", "x", "e", ")" >>
      [] s = "Dragon Sword (Pickaxe)" ->
        << "D", "r", "a", "g", "o", "n", " ", "S", "w", "o", "r", "d", " ",
           "(", "P", "i", "c", "k", "a", "x", "e", ")" >>
      [] s = "Brachio Zord (Back Bling)" ->
        << "B", "r", "a", "c", "h", "i", "o", " ", "Z", "o", "r", "d", " ",
           "(", "B", "a", "c", "k", " ", "B", "l", "i", "n", "g", ")" >>
      [] s = "Mighty Morphing Power Rangers (LEGO)" ->
        << "M", "i", "g", "h", "t", "y", " ", "M", "o", "r", "p", "h", "i",
           "n", "g", " ", "P", "o", "w", "e", "r", " ", "R", "a", "n", "g",
           "e", "r", "s", " ", "(", "L", "E", "G", "O", ")" >>
      [] s = "Skull Raider" ->
        << "S", "k", "u", "l", "l", " ", "R", "a", "i", "d", "e", "r" >>
      [] s = "The Foundation" ->
        << "T", "h", "e", " ", "F", "o", "u", "n", "d", "a", "t", "i", "o",
           "n" >>
      [] s = "Venom Fang & Knight Killer (Pickaxe)" ->
        << "V", "e", "n", "o", "m", " ", "F", "a", "n", "g", " ", "&", " ",
           "K", "n", "i", "g", "h", "t", " ", "K", "i", "l", "l", "e", "r",
           " ", "(", "P", "i", "c", "k", "a", "x", "e", ")" >>
      [] s = "Wings of Light (Back Bling)" ->
        << "W", "i", "n", "g", "s", " ", "o", "f", " ", "L", "i", "g", "h",
           "t", " ", "(", "B", "a", "c", "k", " ", "B", "l", "i", "n", "g",
           ")" >>
      [] s = "Shadow Summoner (Emote)" ->
        << "S", "h", "a", "d", "o", "w", " ", "S", "u", "m", "m", "o", "n",
           "e", "r", " ", "(", "E", "m", "o", "t", "e", ")" >>
      [] s = "S-Rank Scent (Emote)" ->
        << "S", "-", "R", "a", "n", "k", " ", "S", "c", "e", "n", "t", " ",
           "(", "E", "m", "o", "t", "e", ")" >>
      [] s = "Renegade Raider" ->
        << "R", "e", "n", "e", "g", "a", "d", "e", " ", "R", "a", "i", "d",
           "e", "r" >>
      [] s = "Rare Epic Axe" ->
        << "R", "a", "r", "e", " ", "E", "p", "i", "c", " ", "A", "x", "e" >>
      [] s = "Aerial Glider" ->
        << "A", "e", "r", "i", "a", "l", " ", "G", "l", "i", "d", "e", "r" >>
      [] s = "Free Spray" ->
        << "F", "r", "e", "e", " ", "S", "p", "r", "a", "y" >>
      [] s = "Bez nazvaniya" ->
        << "B", "e", "z", " ", "n", "a", "z", "v", "a", "n", "i", "y", "a" >>
      [] s = "Jin" ->
        << "J", "i", "n" >>
      [] s = "zzz" ->
        << "z", "z", "z" >>
      [] s = "legendary" ->
        << "l", "e", "g", "e", "n", "d", "a", "r", "y" >>
      [] s = "reaper" ->
        << "r", "e", "a", "p", "e", "r" >>
      [] s = "igris" ->
        << "i", "g", "r", "i", "s" >>
      [] s = "epic" ->
        << "e", "p", "i", "c" >>
      [] s = "jin" ->
        << "j", "i", "n" >>
      [] s = "hao" ->
        << "h", "a", "o" >>
      [] s = "rare" ->
        << "r", "a", "r", "e" >>
      [] s = "dino" ->
        << "d", "i", "n", "o" >>
      [] s = "uncommon" ->
        << "u", "n", "c", "o", "m", "m", "o", "n" >>
      [] s = "Generic Wrap" ->
        << "G", "e", "n", "e", "r", "i", "c", " ", "W", "r", "a", "p" >>
      [] s = "UNCOMMON DINO" ->
        << "U", "N", "C", "O", "M", "M", "O", "N", " ", "D", "I", "N", "O" >>
      [] s = "Epic Reaper" ->
        << "E", "p", "i", "c", " ", "R", "e", "a", "p", "e", "r" >>
      [] s = "Uncommon Crate" ->
        << "U", "n", "c", "o", "m", "m", "o", "n", " ", "C", "r", "a", "t", "e" >>
      [] s = "RAIDER" ->
        << "R", "A", "I", "D", "E", "R" >>
      [] s = "ra" ->
        << "r", "a" >>

LowerChar(c) ==
    CASE c = "A" -> "a" [] c = "B" -> "b" [] c = "C" -> "c" [] c = "D" -> "d"
      [] c = "E" -> "e" [] c = "F" -> "f" [] c = "G" -> "g" [] c = "H" -> "h"
      [] c = "I" -> "i" [] c = "J" -> "j" [] c = "K" -> "k" [] c = "L" -> "l"
      [] c = "M" -> "m" [] c = "N" -> "n" [] c = "O" -> "o" [] c = "P" -> "p"
      [] c = "Q" -> "q" [] c = "R" -> "r" [] c = "S" -> "s" [] c = "T" -> "t"
      [] c = "U" -> "u" [] c = "V" -> "v" [] c = "W" -> "w" [] c = "X" -> "x"
      [] c = "Y" -> "y" [] c = "Z" -> "z"
      [] OTHER -> c

\* str.lower()
Lower(cs) == [i \in 1 .. Len(cs) |-> LowerChar(cs[i])]

\* needle in hay
Contains(hay, needle) ==
    \E i \in 0 .. (Len(hay) - Len(needle)) :
        SubSeq(hay, i + 1, i + Len(needle)) = needle

\* keyword in name_lower, for a name and a keyword of the model
NameHas(name, keyword) == Contains(Lower(Chars(name)), Chars(keyword))

\* A classification that tests the rules from uncommon up to legendary.
get_rarity_lowest_first(name) ==
    IF NameHas(name, "uncommon")
    THEN "uncommon"
    ELSE IF NameHas(name, "rare") \/ NameHas(name, "dino")
    THEN "rare"
    ELSE IF NameHas(name, "epic") \/ NameHas(name, "jin") \/ NameHas(name, "hao")
    THEN "epic"
    ELSE IF NameHas(name, "legendary") \/ NameHas(name, "reaper")
                \/ NameHas(name, "igris")
    THEN "legendary"
    ELSE "common"

get_rarity(name) ==
    IF NameHas(name, "legendary") \/ NameHas(name, "reaper")
           \/ NameHas(name, "igris")
    THEN "legendary"
    ELSE IF NameHas(name, "epic") \/ NameHas(name, "jin") \/ NameHas(name, "hao")
    THEN "epic"
    ELSE IF NameHas(name, "rare") \/ NameHas(name, "dino")
    THEN "rare"
    ELSE IF NameHas(name, "uncommon")
    THEN "uncommon"
    ELSE "common"

----------------------------------------------------------------------------
(* Aggregation and rendering.  A rendered text is a record: `kind` names   *)
(* the fixed wording, the other fields are the values put into it.  The    *)
(* value RaiseText stands for the function raising (KeyError on a missing  *)
(* key, AttributeError on .get of a value that is no dict).                *)

RaiseText == [kind |-> "raise"]

\* The fixed texts.
NoItemsText == [kind |-> "no_items"]            \* "В магазине нет предметов"
NoStatsText == [kind |-> "no_stats_data"]       \* "Нет данных для статистики."
NoTopText == [kind |-> "no_top_data"]           \* "Нет данных."
NoSearchDataText == [kind |-> "no_search_data"] \* "Нет данных для поиска."
NotFoundText(query) == [kind |-> "not_found", query |-> query]

\* item.get('name', ...), item.get('price', 0), item.get('type', 'unknown')
DefaultName == "Bez nazvaniya"
NameOf(item) == IF item.hasName THEN item.name ELSE DefaultName
PriceOf(item) == IF item.hasPrice THEN item.price ELSE 0
TypeOf(item) == IF item.hasType THEN item.type ELSE "unknown"

\* for sec in sections: if 'items' in sec: items.extend(sec['items'])
RECURSIVE SectionItems(_)
SectionItems(secs) ==
    IF secs = <<>>
    THEN <<>>
    ELSE (IF Head(secs).hasItems THEN Head(secs).items ELSE <<>>)
             \o SectionItems(Tail(secs))

DailyItems(data) == IF data.hasDaily THEN SectionItems(data.daily) ELSE <<>>
FeaturedItems(data) ==
    IF data.hasFeatured THEN SectionItems(data.featured) ELSE <<>>

\* A flattening that takes the featured sections first.
get_all_items_featured_first(data) == FeaturedItems(data) \o DailyItems(data)

\* get_all_items, for a dict (on any other value data.get raises).
get_all_items(data) == DailyItems(data) \o FeaturedItems(data)

\* The date shown by format_shop_text.
ShopDate(data) ==
    LET date == IF data.hasDate THEN data.date ELSE DateVal("display", Today)
    IN  IF IsStr(date) /\ LongerThan10(date)
        THEN IF ParsesAsIso(date)
             THEN DateVal("display", date.day)
             ELSE DateVal("display", Today)
        ELSE date

\* The date shown by get_shop_stats and get_top_items.
StatsDate(data) ==
    LET date == IF data.hasDate THEN data.date ELSE DateVal("bad_short", "")
    IN  IF IsStr(date) /\ LongerThan10(date)
        THEN IF ParsesAsIso(date)
             THEN DateVal("display", date.day)
             ELSE DateVal("display", Today)
        ELSE DateVal("display", Today)

\* A grouping that puts a later variant of a name before the earlier ones.
RECURSIVE GroupIntoPrepend(_, _)
GroupIntoPrepend(groups, items) ==
    IF items = <<>>
    THEN groups
    ELSE LET item == Head(items)
             name == NameOf(item)
             variant == [price |-> PriceOf(item), type |-> TypeOf(item)]
             at == {i \in 1 .. Len(groups) : groups[i].name = name}
         IN  IF at = {}
             THEN GroupIntoPrepend(
                      Append(groups, [name |-> name, variants |-> <<variant>>]),
                      Tail(items))
             ELSE LET i == CHOOSE j \in at : TRUE
                  IN  GroupIntoPrepend(
                          [groups EXCEPT ![i].variants = <<variant>> \o @],
                          Tail(items))

\* grouped.setdefault(name, []).append((price, item_type)), over the items in
\* order: the groups in the order their names first occur.
RECURSIVE GroupInto(_, _)
GroupInto(groups, items) ==
    IF items = <<>>
    THEN groups
    ELSE LET item == Head(items)
             name == NameOf(item)
             variant == [price |-> PriceOf(item), type |-> TypeOf(item)]
             at == {i \in 1 .. Len(groups) : groups[i].name = name}
         IN  IF at = {}
             THEN GroupInto(
                      Append(groups, [name |-> name, variants |-> <<variant>>]),
                      Tail(items))
             ELSE LET i == CHOOSE j \in at : TRUE
                  IN  GroupInto(
                          [groups EXCEPT ![i].variants = Append(@, variant)],
                          Tail(items))

GroupByName(items) == GroupInto(<<>>, items)

\* The names of the model's catalogs, and the rarity of each (get_rarity is a
\* function of the name alone; the table holds its values).
Names ==
    UNION {{NameOf(get_all_items(b)[i]) : i \in 1 .. Len(get_all_items(b))} :
           b \in {get_test_data, CatalogA, BrokenItems}}
RarityOf == [n \in Names |-> get_rarity(n)]

\* The lines of one group: the header (rarity, type of the first variant,
\* name) and one price per variant.
GroupLines(group) ==
    [name |-> group.name,
     type |-> group.variants[1].type,
     rarity |-> RarityOf[group.name],
     prices |-> [i \in 1 .. Len(group.variants) |-> group.variants[i].price]]

RenderGroups(groups) == [i \in 1 .. Len(groups) |-> GroupLines(groups[i])]

\* A rendering that lacks the test `if not items`.
format_shop_text_without_empty_test(data, section) ==
    LET items ==
            (IF section \in {"all", "daily"} THEN DailyItems(data) ELSE <<>>)
                \o (IF section \in {"all", "featured"}
                    THEN FeaturedItems(data)
                    ELSE <<>>)
    IN  [kind |-> "listing",
         section |-> section,
         date |-> ShopDate(data),
         groups |-> RenderGroups(GroupByName(items))]

format_shop_text(data, section) ==
    IF data.kind # "dict"
    THEN RaiseText
    ELSE LET items ==
                 (IF section \in {"all", "daily"} THEN DailyItems(data) ELSE <<>>)
                     \o (IF section \in {"all", "featured"}
                         THEN FeaturedItems(data)
                         ELSE <<>>)
         IN  IF items = <<>>
             THEN NoItemsText
             ELSE [kind |-> "listing",
                   section |-> section,
                   date |-> ShopDate(data),
                   groups |-> RenderGroups(GroupByName(items))]

\* A total that counts each name once (the price of its last item).
RECURSIVE SumPricesOncePerName(_)
SumPricesOncePerName(items) ==
    IF items = <<>>
    THEN 0
    ELSE (IF \E j \in 2 .. Len(items) : items[j].name = Head(items).name
          THEN 0
          ELSE Head(items).price)
             + SumPricesOncePerName(Tail(items))

\* sum(item['price'] for item in items)
RECURSIVE SumPrices(_)
SumPrices(items) ==
    IF items = <<>> THEN 0 ELSE Head(items).price + SumPrices(Tail(items))

\* A maximum that takes the last item of the highest price.
MaxItemLast(items) ==
    LET top == CHOOSE i \in 1 .. Len(items) :
                   /\ \A j \in 1 .. Len(items) : items[j].price <= items[i].price
                   /\ \A j \in (i + 1) .. Len(items) : items[j].price < items[i].price
    IN  items[top]

\* max(items, key=price): the first item of the highest price.
MaxItem(items) ==
    LET top == CHOOSE i \in 1 .. Len(items) :
                   /\ \A j \in 1 .. Len(items) : items[j].price <= items[i].price
                   /\ \A j \in 1 .. (i - 1) : items[j].price < items[i].price
    IN  items[top]

\* f"{total / count:.1f}", in tenths: the quotient rounded to one decimal.
\* The quotient lies midway between two decimals only when 4 divides count;
\* it is then (for a count below 20) a binary fraction (k.25 or k.75), which
\* the float holds exactly and the format rounds to the even digit.
AvgTenths(total, count) ==
    LET q == (10 * total) \div count
        r == (10 * total) % count
    IN  IF 2 * r < count THEN q
        ELSE IF 2 * r > count THEN q + 1
        ELSE IF q % 2 = 0 THEN q ELSE q + 1

get_shop_stats(data) ==
    IF data.kind # "dict"
    THEN RaiseText
    ELSE LET items == get_all_items(data)
         IN  IF items = <<>>
             THEN NoStatsText
             ELSE IF \E i \in 1 .. Len(items) : ~items[i].hasPrice
             THEN RaiseText
             ELSE IF ~MaxItem(items).hasName
             THEN RaiseText
             ELSE [kind |-> "stats",
                   date |-> StatsDate(data),
                   total_items |-> Len(items),
                   total_value_vb |-> SumPrices(items),
                   avg_vb_tenths |-> AvgTenths(SumPrices(items), Len(items)),
                   max_name |-> MaxItem(items).name,
                   max_price_vb |-> MaxItem(items).price]

\* An insertion that puts an item behind the items of its own price.
RECURSIVE InsertAfterTies(_, _)
InsertAfterTies(item, sorted) ==
    IF sorted = <<>>
    THEN <<item>>
    ELSE IF Head(sorted).price >= item.price
    THEN <<Head(sorted)>> \o InsertAfterTies(item, Tail(sorted))
    ELSE <<item>> \o sorted

\* sorted(items, key=price, reverse=True): stable, so items of one price keep
\* their order.  Insertion from the right, before the first cheaper item.
RECURSIVE InsertByPrice(_, _)
InsertByPrice(item, sorted) ==
    IF sorted = <<>>
    THEN <<item>>
    ELSE IF Head(sorted).price > item.price
    THEN <<Head(sorted)>> \o InsertByPrice(item, Tail(sorted))
    ELSE <<item>> \o sorted

RECURSIVE SortedByPriceDesc(_)
SortedByPriceDesc(items) ==
    IF items = <<>>
    THEN <<>>
    ELSE InsertByPrice(Head(items), SortedByPriceDesc(Tail(items)))

\* s[:n]
Prefix(s, n) == SubSeq(s, 1, IF n < Len(s) THEN n ELSE Len(s))

TopRow(item) ==
    [name |-> item.name, price |-> item.price, type |-> TypeOf(item),
     rarity |-> RarityOf[item.name]]

get_top_items(data, n) ==
    IF data.kind # "dict"
    THEN RaiseText
    ELSE LET items == get_all_items(data)
         IN  IF items = <<>>
             THEN NoTopText
             ELSE IF \E i \in 1 .. Len(items) : ~items[i].hasPrice
             THEN RaiseText
             ELSE LET sorted_items == Prefix(SortedByPriceDesc(items), n)
                  IN  IF \E i \in 1 .. Len(sorted_items) : ~sorted_items[i].hasName
                      THEN RaiseText
                      ELSE [kind |-> "top",
                            n |-> n,
                            date |-> StatsDate(data),
                            rows |-> [i \in 1 .. Len(sorted_items) |->
                                         TopRow(sorted_items[i])]]

\* A search that compares the letters as they are written.
FoundCaseSensitive(items, query) ==
    SelectSeq(items, LAMBDA item : Contains(Chars(item.name), Chars(query)))

\* The items whose lowered name contains the lowered query, in order.
Found(items, query) ==
    SelectSeq(items,
              LAMBDA item : Contains(Lower(Chars(item.name)), Lower(Chars(query))))

search_items(data, query) ==
    IF data.kind # "dict"
    THEN RaiseText
    ELSE LET items == get_all_items(data)
         IN  IF items = <<>>
             THEN NoSearchDataText
             ELSE IF \E i \in 1 .. Len(items) : ~items[i].hasName
             THEN RaiseText
             ELSE LET found == Found(items, query)
                  IN  IF found = <<>>
                      THEN NotFoundText(query)
                      ELSE IF \E i \in 1 .. Len(found) : ~found[i].hasPrice
                      THEN RaiseText
                      ELSE [kind |-> "search",
                            query |-> query,
                            groups |-> RenderGroups(GroupByName(found))]

\* The text of the random-item view for the item random.choice picked.
RandomItemText(item) ==
    [kind |-> "random",
     name |-> NameOf(item),
     type |-> TypeOf(item),
     rarity |-> RarityOf[NameOf(item)],
     price |-> PriceOf(item)]

\* get_exchange_info: the rate and its three worked examples, and today's date.
get_exchange_info == [kind |-> "exchange", date |-> DateVal("display", Today)]

----------------------------------------------------------------------------
(* Prices.  An amount of roubles is kept in hundredths, the rate in        *)
(* thousandths; a formatted number is the sequence of its characters.      *)

\* self.vbuck_to_rub = 0.499, in thousandths.
RateMilli == 499

\* The prices of the model at which vbucks * 0.499 ends in 5 thousandths and
\* the float product lies above that value (at 25 it lies below): round()
\* rounds the float, so these go up and the other such prices go down.
FloatProductAbove == {5, 15}

\* round(vbucks * self.vbuck_to_rub, 2), in hundredths.
vbucks_to_rubles(vbucks) ==
    LET milli == vbucks * RateMilli
        q == milli \div 10
        r == milli % 10
    IN  IF r < 5 THEN q
        ELSE IF r > 5 THEN q + 1
        ELSE IF vbucks \in FloatProductAbove THEN q + 1 ELSE q

DigitChars == << "0", "1", "2", "3", "4", "5", "6", "7", "8", "9" >>

\* str(n) for n >= 0
RECURSIVE Digits(_)
Digits(n) ==
    IF n < 10
    THEN << DigitChars[n + 1] >>
    ELSE Append(Digits(n \div 10), DigitChars[(n % 10) + 1])

\* The grouping of f"{n:,}": a separator before every three last digits.
RECURSIVE Grouped(_, _)
Grouped(ds, sep) ==
    IF Len(ds) <= 3
    THEN ds
    ELSE Grouped(SubSeq(ds, 1, Len(ds) - 3), sep)
             \o <<sep>> \o SubSeq(ds, Len(ds) - 2, Len(ds))

\* s.replace(a, b) for one-character a and b
Replace(cs, a, b) == [i \in 1 .. Len(cs) |-> IF cs[i] = a THEN b ELSE cs[i]]

\* f"{rubles:.2f}" for an amount in hundredths
Fixed2(hundredths) ==
    Digits(hundredths \div 100)
        \o << ".", DigitChars[((hundredths % 100) \div 10) + 1],
               DigitChars[(hundredths % 10) + 1] >>

\* f"{vb_str} V-Bucks (~{rub_str} [rouble sign])"
format_price_with_rub(vbucks) ==
    LET rubles == vbucks_to_rubles(vbucks)
        rub_str == Replace(Fixed2(rubles), ".", ",")
        vb_str == Replace(Grouped(Digits(vbucks), ","), ",", " ")
    IN  vb_str \o << " V-Bucks (~" >> \o rub_str \o << " RUB)" >>

----------------------------------------------------------------------------
(* Messages and keyboards *)

\* An inline keyboard is its rows of callback identifiers; "url" is a button
\* that opens the shop's web site and sends no callback.
NoKeyboard == <<>>
BackRow == <<"menu">>

\* The `extra` rows of show_shop_result, shop, daily and featured.
ShopExtra ==
    << <<"shop_all", "shop_daily">>,
       <<"shop_featured", "random_item">>,
       <<"stats", "top">>,
       <<"exchange", "refresh">> >>

\* extra + [[Back]]
ShopKeyboard == ShopExtra \o <<BackRow>>

\* The keyboard of a view that gets the Back button only.
BackKeyboard == <<BackRow>>

\* edit_message_with_result without the row it appends.
edit_message_without_back(extra_buttons) == extra_buttons

\* edit_message_with_result: extra_buttons, then the row with Back.
edit_message_with_result(extra_buttons) == extra_buttons \o <<BackRow>>

MainMenuKeyboard ==
    << <<"shop_all", "shop_daily">>,
       <<"shop_featured", "random_item">>,
       <<"stats", "top">>,
       <<"exchange", "url">>,
       <<"help">> >>

NightKeyboard ==
    << <<"shop_all", "shop_daily">>,
       <<"shop_featured", "random_item">>,
       <<"stats", "top">>,
       <<"exchange", "url">> >>

\* The callback identifiers a keyboard offers.
Ids(kb) ==
    UNION {{kb[r][c] : c \in 1 .. Len(kb[r])} : r \in 1 .. Len(kb)} \ {"url"}

\* A placeholder written while a handler works.
LoadingText(what) == [kind |-> "loading", what |-> what]
SearchingText(query) == [kind |-> "searching", query |-> query]

IsPlaceholder(text) == text.kind \in {"loading", "searching"}

ShopFailText == [kind |-> "shop_failed"]          \* "Не удалось получить данные магазина"
SectionFailText == [kind |-> "section_failed"]    \* "Не удалось получить данные"
SearchFailText == [kind |-> "search_failed"]      \* "Не удалось получить данные магазина."
NoDataText == [kind |-> "no_data"]                \* "Нет данных"
LoadFirstText == [kind |-> "load_first"]          \* "Сначала загрузите магазин"
MainMenuText == [kind |-> "main_menu"]
HelpText == [kind |-> "help"]
QuickHelpText == [kind |-> "quick_help"]
UsageText == [kind |-> "search_usage"]
NextUpdateText == [kind |-> "next_update"]
NightText == [kind |-> "night_update"]

\* A message: its text and the keyboard it shows.  An edit that passes no
\* reply_markup leaves the message without keyboard.
Message(text, kb) == [text |-> text, kb |-> kb]
NoMsg == Message([kind |-> "absent"], NoKeyboard)

MsgIds == 1 .. MaxMsgs

\* edit_message_text / edit_text on message m
Edited(m, text, kb) ==
    [chat EXCEPT ![m] = Message(text, kb)]

----------------------------------------------------------------------------
(* The handlers.  Each operator below is the part of a handler that runs   *)
(* after its placeholder is out: from the value get_shop_data returned to  *)
(* the one edit that ends it.  `stores` says that the handler assigned     *)
(* self.last_shop_data = data, `raises` that an exception left the handler *)
(* before the edit.                                                        *)

Ending(stores, text, kb) ==
    [stores |-> stores, raises |-> text.kind = "raise", text |-> text, kb |-> kb]

\* A show_shop_result that assigns the cache before it tests the snapshot.
show_shop_result_stores_first(data, section) ==
    IF Truthy(data)
    THEN Ending(TRUE, format_shop_text(data, section),
                edit_message_with_result(ShopExtra))
    ELSE Ending(TRUE, ShopFailText, NoKeyboard)

show_shop_result(data, section) ==
    IF Truthy(data)
    THEN Ending(TRUE, format_shop_text(data, section),
                edit_message_with_result(ShopExtra))
    ELSE Ending(FALSE, ShopFailText, NoKeyboard)

show_random_item_result(data, pick) ==
    IF ~Truthy(data)
    THEN Ending(FALSE, NoDataText, NoKeyboard)
    ELSE IF data.kind # "dict"
    THEN Ending(FALSE, RaiseText, NoKeyboard)
    ELSE IF get_all_items(data) = <<>>
    THEN Ending(FALSE, NoItemsText, NoKeyboard)
    ELSE Ending(FALSE, RandomItemText(get_all_items(data)[pick]),
                edit_message_with_result(<<>>))

show_stats_result(data) ==
    IF ~Truthy(data)
    THEN Ending(FALSE, NoDataText, NoKeyboard)
    ELSE Ending(FALSE, get_shop_stats(data), edit_message_with_result(<<>>))

\* The n of "top 5".
TopN == 5

show_top_result(data) ==
    IF ~Truthy(data)
    THEN Ending(FALSE, NoDataText, NoKeyboard)
    ELSE Ending(FALSE, get_top_items(data, TopN), edit_message_with_result(<<>>))

show_exchange_result ==
    Ending(FALSE, get_exchange_info, edit_message_with_result(<<>>))

shop(data) ==
    IF Truthy(data)
    THEN Ending(TRUE, format_shop_text(data, "all"), ShopKeyboard)
    ELSE Ending(FALSE, ShopFailText, NoKeyboard)

daily(data) ==
    IF Truthy(data)
    THEN Ending(FALSE, format_shop_text(data, "daily"), ShopKeyboard)
    ELSE Ending(FALSE, SectionFailText, NoKeyboard)

featured(data) ==
    IF Truthy(data)
    THEN Ending(FALSE, format_shop_text(data, "featured"), ShopKeyboard)
    ELSE Ending(FALSE, SectionFailText, NoKeyboard)

search_command(data, query) ==
    IF ~Truthy(data)
    THEN Ending(FALSE, SearchFailText, NoKeyboard)
    ELSE Ending(FALSE, search_items(data, query), BackKeyboard)

stats_command(data) ==
    IF Truthy(data)
    THEN Ending(FALSE, get_shop_stats(data), BackKeyboard)
    ELSE Ending(FALSE, NoDataText, NoKeyboard)

top_command(data) ==
    IF Truthy(data)
    THEN Ending(FALSE, get_top_items(data, TopN), BackKeyboard)
    ELSE Ending(FALSE, NoDataText, NoKeyboard)

random_command(data, pick) ==
    IF ~Truthy(data)
    THEN Ending(FALSE, NoDataText, NoKeyboard)
    ELSE IF data.kind # "dict"
    THEN Ending(FALSE, RaiseText, NoKeyboard)
    ELSE IF get_all_items(data) = <<>>
    THEN Ending(FALSE, NoItemsText, NoKeyboard)
    ELSE Ending(FALSE, RandomItemText(get_all_items(data)[pick]), BackKeyboard)

exchange_command == Ending(FALSE, get_exchange_info, BackKeyboard)

\* The indices random.choice(items) can pick for a snapshot.
Picks(data) ==
    IF Truthy(data) /\ data.kind = "dict" /\ get_all_items(data) # <<>>
    THEN 1 .. Len(get_all_items(data))
    ELSE {1}

----------------------------------------------------------------------------
(* The state machine *)

Commands ==
    {"start", "shop", "daily", "featured", "nextupdate", "search",
     "stats", "top", "random", "exchange", "help"}

\* The identifiers button_handler has a branch for.
KnownIds ==
    {"shop_all", "shop_daily", "shop_featured", "random_item", "stats", "top",
     "exchange", "refresh", "help", "menu"}

\* An identifier of a button this version of the bot no longer handles.
StaleId == "old_action"

\* What follows /search: nothing, or a query.
Queries == {"Jin", "zzz"}
SearchArgs == {""} \cup Queries

\* The handler the host runs.  pc: "idle" (none), "answered" (a button
\* handler suspended in query.answer()), "loading" (suspended in the call that
\* wrote the placeholder), "done" (returned), "failed" (left by an exception).
\* origin and data are the outcome of its call of get_shop_data, cache_seen
\* the value of self.last_shop_data that the refresh branch tested; offered
\* says whether the message showed the pressed button when the press arrived.
Task(entry, name, args, msg, pc) ==
    [entry |-> entry, name |-> name, args |-> args, msg |-> msg, pc |-> pc,
     origin |-> NoOrigin, data |-> NoneValue, cache_seen |-> NoneValue,
     offered |-> FALSE]

IdleTask == Task("none", "", "", 0, "idle")

\* No call of a pure function is under way.
NoInput == [fn |-> "none"]
NoOutput == [fn |-> "none"]

HostIdle == task.pc = "idle"

\* One of the handlers of a host that dispatches in parallel.  pc: "idle",
\* "answered", "loading", "editing" (suspended in an edit the transport has
\* not applied yet), "done", "failed".  text and kb are the edit under way,
\* and after it the last edit the handler made; `next` is where the handler
\* goes once that edit is applied, `write` says that a suspended handler has
\* yet to assign its snapshot to the cache, `beside` that the handler was
\* started while another one was at work.
ConcTask(entry, name, pc) ==
    [entry |-> entry, name |-> name, pc |-> pc, data |-> NoneValue,
     text |-> [kind |-> "absent"], kb |-> NoKeyboard, next |-> "idle",
     write |-> FALSE, beside |-> FALSE]

IdleConc == ConcTask("none", "", "idle")

TaskIds == 1 .. MaxTasks

\* The host runs one handler at a time: no handler beside `task`.
NoTasks == [t \in TaskIds |-> IdleConc]

Init ==
    /\ last_shop_data = NoneValue
    /\ chat = [m \in MsgIds |-> NoMsg]
    /\ task = IdleTask
    /\ night = "idle"
    /\ input = NoInput
    /\ out = NoOutput
    /\ tasks = NoTasks

\* The slot a new message goes to.
FreeSlots == {m \in MsgIds : chat[m] = NoMsg}
NewSlot == CHOOSE m \in FreeSlots : \A k \in FreeSlots : m <= k

\* The first call of a command handler: the reply it sends, and whether the
\* handler goes on after it (the reply was a placeholder).
FirstReply(name, args) ==
    CASE name = "start" ->
            [text |-> MainMenuText, kb |-> MainMenuKeyboard, more |-> FALSE]
      [] name = "nextupdate" ->
            [text |-> NextUpdateText, kb |-> NoKeyboard, more |-> FALSE]
      [] name = "help" ->
            [text |-> HelpText, kb |-> <<BackRow>>, more |-> FALSE]
      [] name = "search" ->
            IF args = ""
            THEN [text |-> UsageText, kb |-> NoKeyboard, more |-> FALSE]
            ELSE [text |-> SearchingText(args), kb |-> NoKeyboard, more |-> TRUE]
      [] name = "shop" ->
            [text |-> LoadingText("shop"), kb |-> NoKeyboard, more |-> TRUE]
      [] name = "daily" ->
            [text |-> LoadingText("daily"), kb |-> NoKeyboard, more |-> TRUE]
      [] name = "featured" ->
            [text |-> LoadingText("featured"), kb |-> NoKeyboard, more |-> TRUE]
      [] name = "stats" ->
            [text |-> LoadingText("stats_command"), kb |-> NoKeyboard, more |-> TRUE]
      [] name = "top" ->
            [text |-> LoadingText("top_command"), kb |-> NoKeyboard, more |-> TRUE]
      [] name = "random" ->
            [text |-> LoadingText("random"), kb |-> NoKeyboard, more |-> TRUE]
      [] name = "exchange" ->
            [text |-> LoadingText("exchange"), kb |-> NoKeyboard, more |-> TRUE]

\* A typed command arrives: the host calls its handler, which runs up to its
\* first reply_text.
Command(name, args) ==
    /\ HostIdle
    /\ FreeSlots # {}
    /\ (args # "") => (name = "search")
    /\ LET m == NewSlot
           first == FirstReply(name, args)
       IN  /\ chat' = [chat EXCEPT ![m] = Message(first.text, first.kb)]
           /\ task' = Task("command", name, args, m,
                           IF first.more THEN "loading" ELSE "done")
    /\ UNCHANGED <<last_shop_data, night, input, out, tasks>>

\* Command handlers that all fetch once their placeholder is out.
CommandAlwaysFetches(name) == TRUE

\* Whether a command handler calls get_shop_data after its placeholder.
CommandFetches(name) == name # "exchange"

\* The rest of a command handler, for the snapshot it fetched.
CommandEnding(name, args, data, pick) ==
    CASE name = "shop" -> shop(data)
      [] name = "daily" -> daily(data)
      [] name = "featured" -> featured(data)
      [] name = "search" -> search_command(data, args)
      [] name = "stats" -> stats_command(data)
      [] name = "top" -> top_command(data)
      [] name = "random" -> random_command(data, pick)
      [] name = "exchange" -> exchange_command

\* The end of a handler that is past its placeholder: the cache write when it
\* stores, then the edit, or no edit when it raised.
Finish(origin, data, ending) ==
    /\ last_shop_data' = IF ending.stores THEN data ELSE last_shop_data
    /\ chat' = IF ending.raises
               THEN chat
               ELSE Edited(task.msg, ending.text, ending.kb)
    /\ task' = [task EXCEPT !.pc = IF ending.raises THEN "failed" ELSE "done",
                            !.origin = origin,
                            !.data = data]
    /\ UNCHANGED <<night, input, out, tasks>>

\* A command handler resumes after its placeholder: fetch, render, edit.
CommandFinish ==
    /\ task.entry = "command"
    /\ task.pc = "loading"
    /\ \E origin \in (IF CommandFetches(task.name) THEN Origins ELSE {NoOrigin}) :
           LET data == IF origin = NoOrigin THEN NoneValue ELSE get_shop_data(origin)
           IN  \E pick \in (IF task.name = "random" THEN Picks(data) ELSE {1}) :
                   Finish(origin, data,
                          CommandEnding(task.name, task.args, data, pick))

\* A button press arrives: button_handler runs up to query.answer().  The
\* press is for a button of message m: one it shows, or one it showed before
\* an edit, or before this process started, took it away.
Press(m, id) ==
    /\ HostIdle
    /\ chat[m] # NoMsg
    /\ task' = [Task("button", id, "", m, "answered")
                    EXCEPT !.offered = id \in Ids(chat[m].kb)]
    /\ UNCHANGED <<last_shop_data, chat, night, input, out, tasks>>

\* An if/elif chain that ends in `else: show_main_menu`.
BranchElseMenu(id) == IF id \in KnownIds THEN id ELSE "menu"

\* The branch of button_handler's if/elif chain an identifier takes.
Branch(id) == IF id \in KnownIds THEN id ELSE "none"

\* A refresh branch that does not test the cache.
RefreshAlways(cached) == TRUE

\* The refresh branch's test `if self.last_shop_data:`.
RefreshReuses(cached) == Truthy(cached)

\* The first edit of a branch, and whether the handler goes on after it.
FirstEdit(branch, cached) ==
    CASE branch = "shop_all" ->
            [text |-> LoadingText("shop_all"), kb |-> NoKeyboard, more |-> TRUE]
      [] branch = "shop_daily" ->
            [text |-> LoadingText("daily"), kb |-> NoKeyboard, more |-> TRUE]
      [] branch = "shop_featured" ->
            [text |-> LoadingText("featured"), kb |-> NoKeyboard, more |-> TRUE]
      [] branch = "random_item" ->
            [text |-> LoadingText("random"), kb |-> NoKeyboard, more |-> TRUE]
      [] branch = "stats" ->
            [text |-> LoadingText("stats_button"), kb |-> NoKeyboard, more |-> TRUE]
      [] branch = "top" ->
            [text |-> LoadingText("top_button"), kb |-> NoKeyboard, more |-> TRUE]
      [] branch = "exchange" ->
            [text |-> LoadingText("exchange"), kb |-> NoKeyboard, more |-> TRUE]
      [] branch = "refresh" ->
            IF RefreshReuses(cached)
            THEN [text |-> LoadingText("refresh"), kb |-> NoKeyboard, more |-> TRUE]
            ELSE [text |-> LoadFirstText, kb |-> NoKeyboard, more |-> FALSE]
      [] branch = "help" ->
            [text |-> QuickHelpText, kb |-> <<BackRow>>, more |-> FALSE]
      [] branch = "menu" ->
            [text |-> MainMenuText, kb |-> MainMenuKeyboard, more |-> FALSE]

\* button_handler resumes after query.answer(): it takes the branch of its
\* identifier up to that branch's first edit, or returns when there is none.
ButtonBranch ==
    /\ task.entry = "button"
    /\ task.pc = "answered"
    /\ IF Branch(task.name) = "none"
       THEN /\ task' = [task EXCEPT !.pc = "done"]
            /\ UNCHANGED chat
       ELSE LET first == FirstEdit(Branch(task.name), last_shop_data)
            IN  /\ chat' = Edited(task.msg, first.text, first.kb)
                /\ task' = [task EXCEPT
                               !.pc = IF first.more THEN "loading" ELSE "done",
                               !.cache_seen =
                                   IF Branch(task.name) = "refresh"
                                   THEN last_shop_data
                                   ELSE NoneValue]
    /\ UNCHANGED <<last_shop_data, night, input, out, tasks>>

ButtonFetches(branch) == branch # "exchange"

\* The show_..._result call of a branch, for the snapshot it fetched.
ButtonEnding(branch, data, pick) ==
    CASE branch = "shop_all" -> show_shop_result(data, "all")
      [] branch = "shop_daily" -> show_shop_result(data, "daily")
      [] branch = "shop_featured" -> show_shop_result(data, "featured")
      [] branch = "random_item" -> show_random_item_result(data, pick)
      [] branch = "stats" -> show_stats_result(data)
      [] branch = "top" -> show_top_result(data)
      [] branch = "exchange" -> show_exchange_result
      [] branch = "refresh" -> show_shop_result(data, "all")

\* button_handler resumes after its placeholder: the show_..._result call.
ButtonFinish ==
    /\ task.entry = "button"
    /\ task.pc = "loading"
    /\ \E origin \in (IF ButtonFetches(Branch(task.name))
                      THEN Origins
                      ELSE {NoOrigin}) :
           LET data == IF origin = NoOrigin THEN NoneValue ELSE get_shop_data(origin)
           IN  \E pick \in (IF Branch(task.name) = "random_item"
                            THEN Picks(data)
                            ELSE {1}) :
                   Finish(origin, data,
                          ButtonEnding(Branch(task.name), data, pick))

\* night_update: the trigger fires and the scheduled job sends its
\* announcement.  It runs beside the handlers and has one await, the
\* send_message that ends it: the message arrives, or the transport raises
\* and the exception leaves the job (night_update catches nothing).
night_update ==
    /\ night = "idle"
    /\ \/ /\ FreeSlots # {}
          /\ chat' = [chat EXCEPT ![NewSlot] = Message(NightText, NightKeyboard)]
          /\ night' = "sent"
       \/ /\ chat' = chat
          /\ night' = "failed"
    /\ UNCHANGED <<last_shop_data, task, input, out, tasks>>

\* A scheduler that drops a job whose firing raised.
AfterJobDropsFailed(ending) == IF ending = "failed" THEN "stopped" ELSE "idle"

\* What the scheduler does with the job once a firing has ended: the job
\* added at bot.py:651 stays on its cron trigger; an exception of a firing is
\* logged by the scheduler's executor.
AfterJob(ending) == "idle"

\* The firing has returned to the scheduler.
JobReturn ==
    /\ night \in {"sent", "failed"}
    /\ night' = AfterJob(night)
    /\ UNCHANGED <<last_shop_data, chat, task, input, out, tasks>>

\* The handler has returned, or its exception has reached the host, which
\* logs it: the host goes on to the next update.
Return ==
    /\ task.pc \in {"done", "failed"}
    /\ task' = IdleTask
    /\ UNCHANGED <<last_shop_data, chat, night, input, out, tasks>>

\* Message m leaves the messages the model tracks (it is deleted or scrolled
\* away) while no handler is at work.
Forget(m) ==
    /\ HostIdle
    /\ chat[m] # NoMsg
    /\ chat' = [chat EXCEPT ![m] = NoMsg]
    /\ UNCHANGED <<last_shop_data, task, night, input, out, tasks>>

Next ==
    \/ \E name \in Commands, args \in SearchArgs : Command(name, args)
    \/ CommandFinish
    \/ \E m \in MsgIds, id \in KnownIds \cup {StaleId} : Press(m, id)
    \/ ButtonBranch
    \/ ButtonFinish
    \/ Return
    \/ night_update
    \/ JobReturn
    \/ \E m \in MsgIds : Forget(m)

Spec == Init /\ [][Next]_vars

\* The cron trigger (bot.py:651) comes round again and again, a firing that
\* has ended is taken back by the scheduler, and the host takes back a
\* handler that has ended.
FairSpec ==
    /\ Spec
    /\ WF_vars(night_update)
    /\ WF_vars(JobReturn)
    /\ WF_vars(Return)

----------------------------------------------------------------------------
(* Handlers side by side.  The host built at bot.py:29 awaits one handler  *)
(* at a time; a host told to process updates concurrently starts a handler *)
(* per update and lets them interleave at their awaits.  This state        *)
(* machine runs the same handlers under such a host: several button        *)
(* handlers on one message, and /shop handlers beside them.  A step is the *)
(* code of one handler from one await to the next; an edit takes effect    *)
(* while the handler is suspended in it, in a step of its own.             *)

\* The message whose buttons are pressed: the main menu, as /start sent it.
ConcMsg == 1

\* The buttons pressed side by side.
ConcIds == {"shop_all", "shop_daily", "stats", "refresh", "menu"}

\* What the origin answers to the handlers that run side by side.
ConcOrigins ==
    {Timeout, Response(StatusOK, CatalogA), Response(StatusOK, EmptyCatalog),
     Response(StatusOK, EmptyDict), Response(StatusOK, BrokenItems)}

ConcInit ==
    /\ last_shop_data = NoneValue
    /\ chat = [m \in MsgIds |->
                  IF m = ConcMsg
                  THEN Message(MainMenuText, MainMenuKeyboard)
                  ELSE NoMsg]
    /\ task = IdleTask
    /\ night = "idle"
    /\ input = NoInput
    /\ out = NoOutput
    /\ tasks = NoTasks

\* A handler other than t is at work.
AtWork(t) ==
    \E u \in TaskIds \ {t} : tasks[u].pc \notin {"idle", "done", "failed"}

\* A press on the message arrives and the host starts button_handler for it,
\* whatever the other handlers are at: it runs up to query.answer().
ConcPress(t, id) ==
    /\ tasks[t].pc = "idle"
    /\ tasks' = [tasks EXCEPT ![t] =
                    [ConcTask("button", id, "answered") EXCEPT
                        !.beside = AtWork(t)]]
    /\ UNCHANGED <<last_shop_data, chat, task, night, input, out>>

\* /shop arrives and the host starts shop for it: the handler calls
\* reply_text with its placeholder.  The message it creates is one the model
\* does not track.
ConcShop(t) ==
    /\ tasks[t].pc = "idle"
    /\ tasks' = [tasks EXCEPT ![t] =
                    [ConcTask("command", "shop", "editing") EXCEPT
                        !.text = FirstReply("shop", "").text,
                        !.kb = FirstReply("shop", "").kb,
                        !.next = "loading",
                        !.beside = AtWork(t)]]
    /\ UNCHANGED <<last_shop_data, chat, task, night, input, out>>

\* button_handler resumes after query.answer() and calls the first edit of
\* its branch (the refresh branch tests the cache as it is now).
ConcBranch(t) ==
    /\ tasks[t].entry = "button"
    /\ tasks[t].pc = "answered"
    /\ LET first == FirstEdit(Branch(tasks[t].name), last_shop_data)
       IN  tasks' = [tasks EXCEPT ![t] =
                        [@ EXCEPT !.pc = "editing",
                                  !.text = first.text,
                                  !.kb = first.kb,
                                  !.next = IF first.more THEN "loading" ELSE "done"]]
    /\ UNCHANGED <<last_shop_data, chat, task, night, input, out>>

\* The transport applies the edit a handler is suspended in, and the handler
\* can go on.
ConcApply(t) ==
    /\ tasks[t].pc = "editing"
    /\ chat' = IF tasks[t].entry = "button"
               THEN Edited(ConcMsg, tasks[t].text, tasks[t].kb)
               ELSE chat
    /\ last_shop_data' = IF tasks[t].write THEN tasks[t].data ELSE last_shop_data
    /\ tasks' = [tasks EXCEPT ![t] =
                    [@ EXCEPT !.pc = tasks[t].next, !.write = FALSE]]
    /\ UNCHANGED <<task, night, input, out>>

\* A handler that is suspended between the fetch and the assignment.
WriteAfterAwait(ending) == IF ending.stores THEN "later" ELSE "never"

\* When a handler assigns self.last_shop_data = data: `data = await
\* self.get_shop_data()` does not suspend (get_shop_data holds no await), and
\* the assignment is the next statement but one (bot.py:346-348, 470-472).
WriteStep(ending) == IF ending.stores THEN "now" ELSE "never"

\* A button handler whose last edit repeats its placeholder.
ConcEndingLeavesPlaceholder(entry, name, data) ==
    IF entry = "command"
    THEN shop(data)
    ELSE [ButtonEnding(Branch(name), data, 1) EXCEPT
             !.text = FirstEdit(Branch(name), data).text,
             !.kb = NoKeyboard]

\* The rest of a handler that is past its placeholder.
ConcEnding(entry, name, data) ==
    IF entry = "command"
    THEN shop(data)
    ELSE ButtonEnding(Branch(name), data, 1)

\* A handler resumes after its placeholder: it fetches, assigns the cache
\* when it stores, renders and calls its last edit, or raises.
ConcFetch(t) ==
    /\ tasks[t].pc = "loading"
    /\ \E origin \in ConcOrigins :
           LET data == get_shop_data(origin)
               ending == ConcEnding(tasks[t].entry, tasks[t].name, data)
           IN  /\ last_shop_data' = IF WriteStep(ending) = "now"
                                    THEN data
                                    ELSE last_shop_data
               /\ tasks' = [tasks EXCEPT ![t] =
                               [@ EXCEPT
                                   !.pc = IF ending.raises THEN "failed" ELSE "editing",
                                   !.data = data,
                                   !.text = IF ending.raises THEN @ ELSE ending.text,
                                   !.kb = IF ending.raises THEN @ ELSE ending.kb,
                                   !.next = "done",
                                   !.write = WriteStep(ending) = "later"]]
    /\ UNCHANGED <<chat, task, night, input, out>>

\* Every handler the host started has returned or failed: the host is free
\* of them.
ConcReturn ==
    /\ \A t \in TaskIds : tasks[t].pc \in {"idle", "done", "failed"}
    /\ \E t \in TaskIds : tasks[t].pc # "idle"
    /\ tasks' = NoTasks
    /\ UNCHANGED <<last_shop_data, chat, task, night, input, out>>

ConcNext ==
    \/ \E t \in TaskIds, id \in ConcIds : ConcPress(t, id)
    \/ \E t \in TaskIds : ConcShop(t)
    \/ \E t \in TaskIds : ConcBranch(t)
    \/ \E t \in TaskIds : ConcApply(t)
    \/ \E t \in TaskIds : ConcFetch(t)
    \/ ConcReturn

ConcSpec == ConcInit /\ [][ConcNext]_vars

----------------------------------------------------------------------------
(* The pure functions, called on their own.  A second state machine draws  *)
(* the arguments of one call (a snapshot built from a bounded item list,   *)
(* and a section, a query, a count or a name) and applies the function.    *)

\* The longest item list of a drawn snapshot.
MaxLen == 3

\* The items the lists are drawn from: a name with two prices and two
\* types, and two prices that three items share.
PureItems ==
    {Item("Renegade Raider", 1200, "outfit"),
     Item("Renegade Raider", 800, "bundle"),
     Item("Rare Epic Axe", 800, "pickaxe"),
     Item("Aerial Glider", 1200, "glider"),
     Item("Aerial Glider", 500, "glider")}

RECURSIVE SeqsUpTo(_, _)
SeqsUpTo(set, len) ==
    IF len = 0
    THEN {<<>>}
    ELSE LET shorter == SeqsUpTo(set, len - 1)
         IN  shorter \cup {Append(q, x) : q \in shorter, x \in set}

ItemLists == SeqsUpTo(PureItems, MaxLen)

\* A snapshot of the expected shape whose first k items are the one section
\* of 'daily' and whose other items are the one section of 'featured'.
Catalog(items, k) ==
    Doc("dict", TRUE, 1, TRUE, DateVal("iso_long", "d1"),
        TRUE, << Section(SubSeq(items, 1, k)) >>,
        TRUE, << Section(SubSeq(items, k + 1, Len(items))) >>)

Catalogs ==
    UNION {{Catalog(items, k) : k \in 0 .. Len(items)} : items \in ItemLists}

\* Snapshots without any item: no sections key, no sections, sections
\* without 'items', sections with no items, the empty dict.
SectionsWithoutItems ==
    Doc("dict", TRUE, 1, TRUE, DateVal("iso_long", "d1"),
        TRUE, << NoItemsKey, Section(<<>>) >>, TRUE, << NoItemsKey >>)
OnlyDailyKey ==
    Doc("dict", TRUE, 1, TRUE, DateVal("iso_long", "d1"),
        TRUE, <<>>, FALSE, <<>>)
EmptySnapshots ==
    {EmptyCatalog, NoSections, SectionsWithoutItems, OnlyDailyKey, EmptyDict}

\* The values the key 'date' may carry, and catalog A with each of them or
\* without the key; the fixture, whose date is today's in 10 characters.
DateInputs ==
    {DateVal(f, "d1") :
         f \in {"iso_long", "iso_short", "bad_long", "bad_short", "number"}}
WithDate(data, date) == [data EXCEPT !.hasDate = TRUE, !.date = date]
WithoutDate(data) == [data EXCEPT !.hasDate = FALSE, !.date = NoDate]
DatedSnapshots ==
    {WithDate(CatalogA, d) : d \in DateInputs}
        \cup {WithoutDate(CatalogA), get_test_data}

Snapshots == Catalogs \cup EmptySnapshots \cup DatedSnapshots

SectionNames == {"all", "daily", "featured"}
PureQueries == {"RAIDER", "ra", "zzz"}
TopCounts == 0 .. (MaxLen + 1)
RarityNames ==
    {"Blood-Red Commander Igris", "Generic Wrap", "Rare Epic Axe",
     "UNCOMMON DINO", "Epic Reaper", "Uncommon Crate", "Sung Jin-Woo",
     "Aerial Glider"}

\* The arguments of one call.
Call(fn, data, section, query, n, name) ==
    [fn |-> fn, data |-> data, section |-> section, query |-> query,
     n |-> n, name |-> name]

\* The calls that take snapshot d, and the calls of get_rarity.
CallsOn(d) ==
    {Call("format_shop_text", d, sec, "", 0, "") : sec \in SectionNames}
        \cup {Call("search_items", d, "", q, 0, "") : q \in PureQueries}
        \cup {Call("get_top_items", d, "", "", n, "") : n \in TopCounts}
        \cup {Call("get_all_items", d, "", "", 0, ""),
              Call("get_shop_stats", d, "", "", 0, ""),
              Call("show_random_item_result", d, "", "", 1, "")}

RarityCalls == {Call("get_rarity", NoneValue, "", "", 0, nm) : nm \in RarityNames}

\* The prices format_price_with_rub is called on: every price up to
\* MaxPrice, and prices of four and of seven digits.
MaxPrice == 30
PriceInputs == (0 .. MaxPrice) \cup {999, 1000, 1800, 1234567}
PriceCalls ==
    {Call("format_price_with_rub", NoneValue, "", "", v, "") : v \in PriceInputs}

ReturnValue(fn, value) == [fn |-> fn, value |-> value]

PureInit ==
    /\ last_shop_data = NoneValue
    /\ chat = [m \in MsgIds |-> NoMsg]
    /\ task = IdleTask
    /\ night = "idle"
    /\ \/ \E d \in Snapshots : input \in CallsOn(d)
       \/ input \in RarityCalls
       \/ input \in PriceCalls
    /\ out = NoOutput
    /\ tasks = NoTasks

\* The call has not been made yet.
Pending(fn) == input.fn = fn /\ out.fn = "none"

CallFormatShopText ==
    /\ Pending("format_shop_text")
    /\ out' = ReturnValue(input.fn, format_shop_text(input.data, input.section))
    /\ UNCHANGED <<last_shop_data, chat, task, night, input, tasks>>

CallSearchItems ==
    /\ Pending("search_items")
    /\ out' = ReturnValue(input.fn, search_items(input.data, input.query))
    /\ UNCHANGED <<last_shop_data, chat, task, night, input, tasks>>

CallGetTopItems ==
    /\ Pending("get_top_items")
    /\ out' = ReturnValue(input.fn, get_top_items(input.data, input.n))
    /\ UNCHANGED <<last_shop_data, chat, task, night, input, tasks>>

CallGetShopStats ==
    /\ Pending("get_shop_stats")
    /\ out' = ReturnValue(input.fn, get_shop_stats(input.data))
    /\ UNCHANGED <<last_shop_data, chat, task, night, input, tasks>>

\* The random view: what show_random_item_result puts on the message.
CallShowRandomItemResult ==
    /\ Pending("show_random_item_result")
    /\ out' = ReturnValue(input.fn,
                        show_random_item_result(input.data, input.n).text)
    /\ UNCHANGED <<last_shop_data, chat, task, night, input, tasks>>

CallGetAllItems ==
    /\ Pending("get_all_items")
    /\ out' = ReturnValue(input.fn, get_all_items(input.data))
    /\ UNCHANGED <<last_shop_data, chat, task, night, input, tasks>>

CallGetRarity ==
    /\ Pending("get_rarity")
    /\ out' = ReturnValue(input.fn, get_rarity(input.name))
    /\ UNCHANGED <<last_shop_data, chat, task, night, input, tasks>>

CallFormatPriceWithRub ==
    /\ Pending("format_price_with_rub")
    /\ out' = ReturnValue(input.fn, format_price_with_rub(input.n))
    /\ UNCHANGED <<last_shop_data, chat, task, night, input, tasks>>

PureNext ==
    \/ CallFormatShopText
    \/ CallSearchItems
    \/ CallGetTopItems
    \/ CallGetShopStats
    \/ CallShowRandomItemResult
    \/ CallGetRarity
    \/ CallGetAllItems
    \/ CallFormatPriceWithRub

PureSpec == PureInit /\ [][PureNext]_vars

----------------------------------------------------------------------------
(* Properties.  They are stated over the handler record: once a handler    *)
(* has ended, task holds what it fetched and chat[task.msg] is the message *)
(* as the handler left it, until the host takes the next update.           *)

Ended == task.pc \in {"done", "failed"}
Returned == task.pc = "done"
Shown == chat[task.msg]
Fetched == task.origin # NoOrigin

IsCommand(names) == task.entry = "command" /\ task.name \in names
IsButton(ids) == task.entry = "button" /\ task.name \in ids

\* The origin failed: a transport exception, a timeout, or a status other
\* than 200.
OriginFailed(origin) ==
    \/ origin.kind \in {"exception", "timeout"}
    \/ origin.kind = "response" /\ origin.status # StatusOK

\* The handlers that render the full view.
FullView == IsCommand({"shop"}) \/ IsButton({"shop_all", "refresh"})

\* The handlers that produce a view of the catalog.
ViewHandler ==
    \/ IsCommand({"shop", "daily", "featured", "stats", "top", "random"})
    \/ IsCommand({"search"}) /\ task.args # ""
    \/ IsButton({"shop_all", "shop_daily", "shop_featured", "random_item",
                 "stats", "top"})

\* The shape { data: { date, daily: [...], featured: [...] } }.
ExpectedShape(body) ==
    /\ body.kind = "dict"
    /\ body.wrapped
    /\ body.hasDate /\ body.hasDaily /\ body.hasFeatured

\* C1: whenever the origin call of a handler ended in a transport exception,
\* a timeout or a status other than 200, get_shop_data returned the fixture,
\* the fixture flattens to a non-empty item list, and a handler of the full
\* view returned with the listing of the fixture on its message.
C1_FixtureOnOriginFailure ==
    (Ended /\ OriginFailed(task.origin)) =>
        /\ task.data = get_test_data
        /\ get_all_items(task.data) # <<>>
        /\ FullView =>
               /\ Returned
               /\ Shown.text.kind = "listing"
               /\ Shown.text = format_shop_text(get_test_data, "all")

C1_Witness ==
    /\ Returned
    /\ IsCommand({"shop"})
    /\ task.origin = Timeout
    /\ Shown.text.kind = "listing"

\* C2 (as claimed): whenever the origin answered 200 with a body that is not
\* of the expected shape, get_shop_data returned the fixture.
C2_MalformedBodyFallsBack ==
    (Ended /\ task.origin.kind = "response" /\ task.origin.status = StatusOK
           /\ ~ExpectedShape(task.origin.body)) =>
        task.data = get_test_data

\* C3 (as claimed): whenever a view handler that fetched has returned, the
\* snapshot it fetched is the cached one, and a refresh would find it.
C3_EveryViewStores ==
    (Returned /\ ViewHandler /\ Fetched) =>
        /\ last_shop_data = task.data
        /\ RefreshReuses(last_shop_data)

\* C4 (as claimed): whenever a press of a displayed refresh button that found
\* a cached snapshot has been handled, the handler called the origin not at
\* all and the message shows the full view of the snapshot it found.
C4_RefreshReusesCache ==
    (Ended /\ IsButton({"refresh"}) /\ task.offered /\ Truthy(task.cache_seen)) =>
        /\ ~Fetched
        /\ Shown.text = format_shop_text(task.cache_seen, "all")

\* C5: whenever a refresh press that found no cached snapshot has been
\* handled, the handler returned, its message reads "load the catalog
\* first", it made no origin call, and the cache is still empty.
C5_RefreshWithoutCache ==
    (Ended /\ IsButton({"refresh"}) /\ task.cache_seen = NoneValue) =>
        /\ Returned
        /\ Shown.text = LoadFirstText
        /\ ~Fetched
        /\ last_shop_data = NoneValue

C5_Witness ==
    /\ Returned
    /\ IsButton({"refresh"})
    /\ task.offered
    /\ task.cache_seen = NoneValue
    /\ Shown.text = LoadFirstText

\* C6 (as claimed): whenever a press of a displayed refresh button that found
\* no cached snapshot has been handled, the message still offers a control
\* that leads to the root menu.  (A keyboard that shows refresh shows Back.)
C6_ControlsRemain ==
    (Ended /\ IsButton({"refresh"}) /\ task.offered
           /\ task.cache_seen = NoneValue) =>
        "menu" \in Ids(Shown.kb)

\* C7 (as claimed): whenever a handler has ended, by returning or by an
\* exception, its message is no loading placeholder.
C7_NoDanglingPlaceholder == Ended => ~IsPlaceholder(Shown.text)

\* C8 (as claimed): whenever a view handler has returned, its message
\* carries the Back control (the callback "menu").
C8_BackOnEveryExit ==
    (Returned /\ ViewHandler) => "menu" \in Ids(Shown.kb)

\* The kinds of text that are a rendered view.
ListingKinds == {"listing"}
OtherViewKinds == {"stats", "top", "search", "random", "exchange"}

\* C9 (as claimed): whenever a handler has returned with a rendered view on
\* its message, the message has the menu button layout plus Back.
C9_SameControlsOnEveryView ==
    (Returned /\ Shown.text.kind \in ListingKinds \cup OtherViewKinds) =>
        Shown.kb = ShopExtra \o <<BackRow>>

\* C9 (amended): whenever a handler has returned with a rendered item listing
\* (full, daily or featured) on its message, the message has the eight-button
\* layout plus Back; with a rendered stats, top, search, random or exchange
\* view, it has the Back control alone.  Both hold for commands and buttons.
C9_ControlsByViewKind ==
    Returned =>
        /\ Shown.text.kind \in ListingKinds =>
               Shown.kb = ShopExtra \o <<BackRow>>
        /\ Shown.text.kind \in OtherViewKinds =>
               Shown.kb = <<BackRow>>

C9_Witness ==
    /\ Returned
    /\ IsButton({"stats"})
    /\ Shown.text.kind = "stats"
    /\ Shown.kb = <<BackRow>>

\* C10: every step of a button handler whose identifier is not a known one
\* (its start up to query.answer(), and its return) leaves the message of
\* the press and the cached snapshot as they were, calls the origin not at
\* all, and does not raise.
C10_UnknownIdAbsorbed ==
    [][(task' # task /\ task'.entry = "button" /\ task'.name \notin KnownIds) =>
           /\ chat'[task'.msg] = chat[task'.msg]
           /\ last_shop_data' = last_shop_data
           /\ task'.origin = NoOrigin
           /\ task'.pc \in {"answered", "done"}]_vars

C10_Witness ==
    /\ Returned
    /\ IsButton({StaleId})
    /\ Shown # NoMsg

\* C11 (as claimed): every firing of the scheduled job that sent its message
\* put a message into the chat whose text is a full-view listing.
C11_NightPushesFullView ==
    [][(night = "idle" /\ night' = "sent") =>
           \E m \in MsgIds :
               /\ chat'[m] # chat[m]
               /\ chat'[m].text.kind = "listing"
               /\ chat'[m].text.section = "all"]_vars

C13_CacheHoldsOriginSnapshot ==
    Truthy(last_shop_data) =>
        /\ last_shop_data # get_test_data
        /\ \E origin \in Origins :
               /\ ~OriginFailed(origin)
               /\ last_shop_data = origin.body

----------------------------------------------------------------------------
(* Properties of the pure functions, stated over a call and its value.     *)

Called(fn) == out.fn = fn

\* The items a call of format_shop_text takes for its section, and the
\* flattened items the other functions take.
ViewItems ==
    IF input.fn = "format_shop_text"
    THEN (IF input.section \in {"all", "daily"}
          THEN DailyItems(input.data)
          ELSE <<>>)
             \o (IF input.section \in {"all", "featured"}
                 THEN FeaturedItems(input.data)
                 ELSE <<>>)
    ELSE get_all_items(input.data)

\* The query is a substring of the name when letter case is ignored.
Matches(name, query) ==
    LET nm == Chars(name)
        qy == Chars(query)
    IN  \E off \in 0 .. (Len(nm) - Len(qy)) :
            \A k \in 1 .. Len(qy) : LowerChar(nm[off + k]) = LowerChar(qy[k])

\* The items a call groups: the matching ones for a search.
GroupedItems ==
    IF input.fn = "search_items"
    THEN SelectSeq(ViewItems, LAMBDA item : Matches(NameOf(item), input.query))
    ELSE ViewItems

DistinctNames(items) == {NameOf(items[i]) : i \in 1 .. Len(items)}
FirstAt(items, name) ==
    CHOOSE i \in 1 .. Len(items) :
        /\ NameOf(items[i]) = name
        /\ \A j \in 1 .. (i - 1) : NameOf(items[j]) # name

\* The place of a name among the distinct names, by first occurrence, and
\* the place of item i among the items of its name.
GroupIndex(items, name) ==
    Cardinality({m \in DistinctNames(items) :
                     FirstAt(items, m) <= FirstAt(items, name)})
PlaceInGroup(items, i) ==
    Cardinality({j \in 1 .. i : NameOf(items[j]) = NameOf(items[i])})

GroupedInOrder(items, groups) ==
    /\ Len(groups) = Cardinality(DistinctNames(items))
    /\ \A g \in 1 .. Len(groups) :
           Len(groups[g].prices) =
               Cardinality({i \in 1 .. Len(items) :
                                NameOf(items[i]) = groups[g].name})
    /\ \A i \in 1 .. Len(items) :
           LET g == groups[GroupIndex(items, NameOf(items[i]))]
               at == PlaceInGroup(items, i)
           IN  /\ g.name = NameOf(items[i])
               /\ g.prices[at] = PriceOf(items[i])
               /\ (at = 1) => (g.type = TypeOf(items[i]))

\* C14: a call of format_shop_text or search_items that has items to group
\* returns a listing whose groups are the distinct names in the order of
\* their first occurrence, each with the prices of its items in input order
\* (and the type of its first item); every item is in the one group of its
\* name, once.
C14_GroupingKeepsOrder ==
    ((Called("format_shop_text") \/ Called("search_items"))
         /\ GroupedItems # <<>>) =>
        /\ out.value.kind \in {"listing", "search"}
        /\ GroupedInOrder(GroupedItems, out.value.groups)

C14_Witness ==
    /\ Called("format_shop_text")
    /\ Len(ViewItems) = 3
    /\ NameOf(ViewItems[1]) = NameOf(ViewItems[3])
    /\ NameOf(ViewItems[1]) # NameOf(ViewItems[2])
    /\ PriceOf(ViewItems[1]) # PriceOf(ViewItems[3])
    /\ Len(out.value.groups) = 2
    /\ Len(out.value.groups[1].prices) = 2

\* The rank of item i: behind every dearer item, and behind the items of its
\* own price that come before it.
Rank(items, i) ==
    Cardinality({j \in 1 .. Len(items) : items[j].price > items[i].price})
        + Cardinality({j \in 1 .. (i - 1) : items[j].price = items[i].price})
        + 1

Min(a, b) == IF a < b THEN a ELSE b

\* C15: a call of get_top_items on a snapshot with items lists min(n, count)
\* rows in non-increasing price order; the item of rank k is row k, with
\* items of one price ranked in flattening order, and an item that is not
\* listed is no dearer than any row.
C15_TopIsStablePrefix ==
    (Called("get_top_items") /\ ViewItems # <<>>) =>
        LET items == ViewItems
            rows == out.value.rows
            shown == Min(input.n, Len(items))
        IN  /\ out.value.kind = "top"
            /\ Len(rows) = shown
            /\ \A k \in 1 .. (Len(rows) - 1) : rows[k].price >= rows[k + 1].price
            /\ \A i \in 1 .. Len(items) :
                   IF Rank(items, i) <= shown
                   THEN rows[Rank(items, i)] = TopRow(items[i])
                   ELSE \A k \in 1 .. Len(rows) : rows[k].price >= items[i].price

C15_Witness ==
    /\ Called("get_top_items")
    /\ input.n = 2
    /\ Len(ViewItems) = 3
    /\ ViewItems[1].price < ViewItems[2].price
    /\ ViewItems[2].price = ViewItems[3].price
    /\ ViewItems[2].name # ViewItems[3].name
    /\ Len(input.data.daily[1].items) = 1
    /\ Len(out.value.rows) = 2
    /\ out.value.rows[1].name = ViewItems[2].name
    /\ out.value.rows[2].name = ViewItems[3].name

\* The prices of the first k items, added up.
RECURSIVE TotalOfFirst(_, _)
TotalOfFirst(items, k) ==
    IF k = 0 THEN 0 ELSE TotalOfFirst(items, k - 1) + items[k].price

Abs(x) == IF x < 0 THEN 0 - x ELSE x

StatsCountAndTotal ==
    /\ out.value.kind = "stats"
    /\ out.value.total_items = Len(ViewItems)
    /\ out.value.total_value_vb = TotalOfFirst(ViewItems, Len(ViewItems))

\* C16 (as claimed): a call of get_shop_stats on a snapshot with items
\* reports the number of items, the sum of their prices, and an average
\* that is the total divided by the count.
C16_AverageIsQuotient ==
    (Called("get_shop_stats") /\ ViewItems # <<>>) =>
        /\ StatsCountAndTotal
        /\ out.value.avg_vb_tenths * out.value.total_items
               = 10 * out.value.total_value_vb

\* C16 (amended): a call of get_shop_stats on a snapshot with items reports
\* the number of items, the sum of their prices (an item per occurrence),
\* and as average the number with one decimal that is nearest to the total
\* divided by the count.
C16_AverageIsRoundedQuotient ==
    (Called("get_shop_stats") /\ ViewItems # <<>>) =>
        /\ StatsCountAndTotal
        /\ 2 * Abs(out.value.avg_vb_tenths * out.value.total_items
                       - 10 * out.value.total_value_vb)
               <= out.value.total_items

C16_Witness ==
    /\ Called("get_shop_stats")
    /\ Len(ViewItems) = 3
    /\ ViewItems[1].name = ViewItems[2].name
    /\ out.value.total_value_vb = 2800
    /\ out.value.avg_vb_tenths = 9333

\* C17: the most expensive item that a call of get_shop_stats on a snapshot
\* with items reports has a price no item exceeds, and it is the first item
\* of that price in flattening order: no item before it has its price.
C17_MostExpensiveIsFirstMaximum ==
    (Called("get_shop_stats") /\ ViewItems # <<>>) =>
        /\ out.value.kind = "stats"
        /\ \A i \in 1 .. Len(ViewItems) :
               ViewItems[i].price <= out.value.max_price_vb
        /\ \E i \in 1 .. Len(ViewItems) :
               /\ ViewItems[i].price = out.value.max_price_vb
               /\ ViewItems[i].name = out.value.max_name
               /\ \A j \in 1 .. (i - 1) :
                      ViewItems[j].price < out.value.max_price_vb

C17_Witness ==
    /\ Called("get_shop_stats")
    /\ Len(ViewItems) = 3
    /\ ViewItems[1].price < ViewItems[2].price
    /\ ViewItems[2].price = ViewItems[3].price
    /\ ViewItems[2].name # ViewItems[3].name
    /\ Len(input.data.daily[1].items) = 2
    /\ out.value.max_name = ViewItems[2].name

\* The lines of prices a rendered search shows, over all its groups.
RECURSIVE PriceLines(_)
PriceLines(groups) ==
    IF groups = <<>>
    THEN 0
    ELSE Len(Head(groups).prices) + PriceLines(Tail(groups))

\* C18: a call of search_items on a snapshot without items returns the "no
\* data to search" text; on a snapshot with items none of which matches, it
\* returns the "nothing found for <query>" text, a different one, and does
\* not raise; otherwise it returns a result that shows exactly the items
\* whose name contains the query (letter case ignored), in flattening order
\* under their names.
C18_SearchIsSubstringMatch ==
    Called("search_items") =>
        IF ViewItems = <<>>
        THEN out.value.kind = "no_search_data"
        ELSE IF \A i \in 1 .. Len(ViewItems) :
                    ~Matches(ViewItems[i].name, input.query)
        THEN /\ out.value.kind = "not_found"
             /\ out.value.query = input.query
        ELSE /\ out.value.kind = "search"
             /\ {out.value.groups[g].name : g \in 1 .. Len(out.value.groups)}
                    = {ViewItems[i].name :
                           i \in {j \in 1 .. Len(ViewItems) :
                                      Matches(ViewItems[j].name, input.query)}}
             /\ PriceLines(out.value.groups)
                    = Cardinality({j \in 1 .. Len(ViewItems) :
                                       Matches(ViewItems[j].name, input.query)})
             /\ GroupedInOrder(GroupedItems, out.value.groups)

C18_Witness ==
    /\ Called("search_items")
    /\ input.query = "RAIDER"
    /\ Len(ViewItems) = 3
    /\ ViewItems[1].name = "Aerial Glider"
    /\ ViewItems[2].name = "Renegade Raider"
    /\ ViewItems[3].name = "Rare Epic Axe"
    /\ out.value.kind = "search"
    /\ Len(out.value.groups) = 1

\* The "nothing available" text of each view.
NothingAvailable(fn) ==
    CASE fn = "format_shop_text" -> {"no_items"}
      [] fn = "get_shop_stats" -> {"no_stats_data"}
      [] fn = "get_top_items" -> {"no_top_data"}
      [] fn = "search_items" -> {"no_search_data"}
      [] fn = "show_random_item_result" -> {"no_items", "no_data"}

ViewFunctions ==
    {"format_shop_text", "get_shop_stats", "get_top_items", "search_items",
     "show_random_item_result"}

\* C19: a call of a view's function on a snapshot whose item set for that
\* view is empty (a sections key is missing, a sections list is empty, a
\* section has no 'items' or no items) does not raise and returns the
\* view's "nothing available" text, no listing.
C19_EmptyViewSaysNothingAvailable ==
    (out.fn \in ViewFunctions /\ ViewItems = <<>>) =>
        out.value.kind \in NothingAvailable(out.fn)

C19_Witness ==
    /\ Called("format_shop_text")
    /\ input.section = "daily"
    /\ DailyItems(input.data) = <<>>
    /\ FeaturedItems(input.data) # <<>>
    /\ out.value.kind = "no_items"

\* The rule table, in the order of its rules.
RarityRules ==
    << [rarity |-> "legendary", keywords |-> {"legendary", "reaper", "igris"}],
       [rarity |-> "epic", keywords |-> {"epic", "jin", "hao"}],
       [rarity |-> "rare", keywords |-> {"rare", "dino"}],
       [rarity |-> "uncommon", keywords |-> {"uncommon"}] >>

RulesMatching(name) ==
    {r \in 1 .. Len(RarityRules) :
         \E kw \in RarityRules[r].keywords : Matches(name, kw)}

\* C20: a call of get_rarity returns one of the five rarities: that of the
\* first rule (legendary, epic, rare, uncommon) one of whose keywords the
\* name contains, letter case ignored, or common when the name contains no
\* keyword; "Blood-Red Commander Igris" is legendary, "Generic Wrap" common.
C20_RarityIsFirstMatchingRule ==
    Called("get_rarity") =>
        /\ out.value \in {"common", "uncommon", "rare", "epic", "legendary"}
        /\ IF RulesMatching(input.name) = {}
           THEN out.value = "common"
           ELSE \E r \in RulesMatching(input.name) :
                    /\ \A q \in RulesMatching(input.name) : r <= q
                    /\ out.value = RarityRules[r].rarity
        /\ (input.name = "Blood-Red Commander Igris") => (out.value = "legendary")
        /\ (input.name = "Generic Wrap") => (out.value = "common")

C20_Witness ==
    /\ Called("get_rarity")
    /\ input.name = "UNCOMMON DINO"
    /\ RulesMatching(input.name) = {3, 4}
    /\ out.value = "rare"

\* The amount in hundredths that is nearest to vbucks * 0.499, a value midway
\* going up (half up) or to the even digit (half even).
RoundHalfUp(milli) == (milli + 5) \div 10
RoundHalfEven(milli) ==
    LET q == milli \div 10
        r == milli % 10
    IN  IF r < 5 THEN q
        ELSE IF r > 5 THEN q + 1
        ELSE IF q % 2 = 0 THEN q ELSE q + 1

\* The text of a price and its amount in hundredths.
PriceText(vbucks, hundredths) ==
    Replace(Grouped(Digits(vbucks), ","), ",", " ")
        \o << " V-Bucks (~" >>
        \o Digits(hundredths \div 100)
        \o << ",", DigitChars[((hundredths % 100) \div 10) + 1],
               DigitChars[(hundredths % 10) + 1] >>
        \o << " RUB)" >>

\* C21 (as claimed): a call of format_price_with_rub returns the price
\* grouped in thousands by spaces and the price times 0.499 rounded to two
\* decimals (half up or half even), written with a comma and two decimals;
\* for 1800 it returns "1 800 V-Bucks (~898,20 RUB)".
C21_PriceIsRoundedConversion ==
    Called("format_price_with_rub") =>
        /\ \/ out.value = PriceText(input.n, RoundHalfUp(input.n * RateMilli))
           \/ out.value = PriceText(input.n, RoundHalfEven(input.n * RateMilli))
        /\ (input.n = 1800) =>
               out.value = << "1", " ", "8", "0", "0", " V-Bucks (~",
                              "8", "9", "8", ",", "2", "0", " RUB)" >>

\* The date a render has to show for a snapshot: the day the first ten
\* characters of its date spell, or today when there is no such day.
DateToShow(data) ==
    IF data.hasDate /\ data.date.form \in {"iso_long", "iso_short"}
    THEN DateVal("display", data.date.day)
    ELSE DateVal("display", Today)

\* C22 (as claimed): a call of format_shop_text that returns a listing shows
\* the snapshot's date in display format, and today's date when the date is
\* missing, is no string, or spells no day; it never shows the raw value.
C22_ListingDateIsParsedOrToday ==
    (Called("format_shop_text") /\ ViewItems # <<>>) =>
        /\ out.value.kind = "listing"
        /\ out.value.date.form = "display"
        /\ out.value.date = DateToShow(input.data)

\* The items of a list of sections, last section last; a section without
\* the key 'items' has none.
RECURSIVE FlatSections(_)
FlatSections(secs) ==
    IF secs = <<>>
    THEN <<>>
    ELSE FlatSections(SubSeq(secs, 1, Len(secs) - 1))
             \o (IF secs[Len(secs)].hasItems THEN secs[Len(secs)].items ELSE <<>>)

RECURSIVE ItemCount(_)
ItemCount(secs) ==
    IF secs = <<>>
    THEN 0
    ELSE (IF Head(secs).hasItems THEN Len(Head(secs).items) ELSE 0)
             + ItemCount(Tail(secs))

DailyPart(data) == IF data.hasDaily THEN FlatSections(data.daily) ELSE <<>>
FeaturedPart(data) ==
    IF data.hasFeatured THEN FlatSections(data.featured) ELSE <<>>

\* The items a section's view has to list.
PartOf(data, section) ==
    CASE section = "all" -> DailyPart(data) \o FeaturedPart(data)
      [] section = "daily" -> DailyPart(data)
      [] section = "featured" -> FeaturedPart(data)

\* C23: a call of get_all_items returns the items of the daily sections and
\* then those of the featured sections, each in source order, as many as
\* the sections hold; a call of format_shop_text lists exactly this
\* sequence for 'all' and its daily or featured part for 'daily' or
\* 'featured' (or says that there are no items when the part is empty).
C23_FlattenDailyThenFeatured ==
    /\ Called("get_all_items") =>
           /\ out.value = DailyPart(input.data) \o FeaturedPart(input.data)
           /\ Len(out.value) =
                  (IF input.data.hasDaily THEN ItemCount(input.data.daily) ELSE 0)
                      + (IF input.data.hasFeatured
                         THEN ItemCount(input.data.featured)
                         ELSE 0)
    /\ Called("format_shop_text") =>
           IF PartOf(input.data, input.section) = <<>>
           THEN out.value.kind = "no_items"
           ELSE /\ out.value.kind = "listing"
                /\ GroupedInOrder(PartOf(input.data, input.section),
                                  out.value.groups)

C23_Witness ==
    /\ Called("get_all_items")
    /\ Len(out.value) = 3
    /\ Len(DailyPart(input.data)) = 1
    /\ out.value[1] = out.value[3]
    /\ out.value[1] # out.value[2]

\* C24: in every step, a cached snapshot stays cached (it may be replaced,
\* never removed); a step that changes the cache puts there the value the
\* call of get_shop_data of the handler at work returned; and a step that
\* writes "load the catalog first" happens with nothing cached.
C24_CacheStaysPresent ==
    [][/\ Truthy(last_shop_data) => Truthy(last_shop_data')
       /\ (last_shop_data' # last_shop_data) =>
              /\ task'.origin # NoOrigin
              /\ last_shop_data' = get_shop_data(task'.origin)
       /\ \A m \in MsgIds :
              (chat'[m] # chat[m] /\ chat'[m].text = LoadFirstText) =>
                  last_shop_data = NoneValue]_vars

C24_Witness ==
    /\ Ended
    /\ IsButton({"refresh"})
    /\ Truthy(task.cache_seen)
    /\ Truthy(last_shop_data)
    /\ last_shop_data # task.cache_seen

\* The handlers the host ran side by side have all returned, a button
\* handler among them, and none has failed.
ConcAllDone ==
    /\ \A t \in TaskIds : tasks[t].pc \in {"idle", "done"}
    /\ \E t \in TaskIds : tasks[t].pc = "done" /\ tasks[t].entry = "button"

\* The message is as the last edit of handler t left it.
ShowsLastEditOf(t) ==
    /\ tasks[t].pc = "done"
    /\ tasks[t].entry = "button"
    /\ chat[ConcMsg] = Message(tasks[t].text, tasks[t].kb)

\* C25: once the button handlers that ran side by side on one message have
\* all returned without failure, the message shows the final output of one
\* of them and no loading placeholder.
C25_FinalViewRemains ==
    ConcAllDone =>
        /\ ~IsPlaceholder(chat[ConcMsg].text)
        /\ \E t \in TaskIds : ShowsLastEditOf(t)

\* Two button handlers that each wrote a placeholder have returned, the
\* second started while the first was at work; their views differ and the
\* message shows the view of the first.
C25_Witness ==
    /\ ConcAllDone
    /\ \A t \in {1, 2} :
           /\ tasks[t].entry = "button"
           /\ tasks[t].pc = "done"
           /\ tasks[t].name \in {"shop_all", "shop_daily", "stats", "refresh"}
    /\ tasks[2].beside
    /\ tasks[1].text # tasks[2].text
    /\ ShowsLastEditOf(1)

\* Handler t runs show_shop_result or shop.
Storing(t) ==
    \/ tasks[t].entry = "command"
    \/ tasks[t].entry = "button"
           /\ tasks[t].name \in {"shop_all", "shop_daily", "shop_featured", "refresh"}

\* In this step handler t made its call of get_shop_data.
FetchStep(t) == tasks[t].pc = "loading" /\ tasks'[t].pc # "loading"

\* C26: under every interleaving of handlers, the cache changes only in the
\* step in which a handler fetched, to the snapshot that fetch returned, and
\* every fetch of a storing handler that returned a snapshot leaves it in the
\* cache: no handler writes a snapshot older than the cached one.
C26_WriteBelongsToFetch ==
    [][/\ (last_shop_data' # last_shop_data) =>
              \E t \in TaskIds :
                  FetchStep(t) /\ last_shop_data' = tasks'[t].data
       /\ \A t \in TaskIds :
              (FetchStep(t) /\ Storing(t) /\ Truthy(tasks'[t].data)) =>
                  last_shop_data' = tasks'[t].data]_vars

\* Two storing handlers are both between their fetch and the end of their
\* last edit; they fetched different snapshots and the cache holds the one
\* of the second.
C26_Witness ==
    /\ \A t \in {1, 2} :
           /\ Storing(t)
           /\ tasks[t].pc = "editing"
           /\ tasks[t].next = "done"
           /\ Truthy(tasks[t].data)
    /\ tasks[1].data # tasks[2].data
    /\ last_shop_data = tasks[2].data

\* Handler h is one of those that need no snapshot: menu, help, exchange,
\* /start, /nextupdate, or /search without an argument.
NeedsNoSnapshot(h) ==
    \/ /\ h.entry = "command"
       /\ \/ h.name \in {"start", "nextupdate", "help", "exchange"}
          \/ h.name = "search" /\ h.args = ""
    \/ /\ h.entry = "button"
       /\ h.name \in {"menu", "help", "exchange"}

\* Handler h is /search without an argument.
BareSearch(h) == h.entry = "command" /\ h.name = "search" /\ h.args = ""

\* C27: the menu, help and exchange handlers, /start, /nextupdate, /search
\* without an argument and the scheduled job never call the origin and never
\* change the cache; /search without an argument ends with its first reply,
\* the usage hint, and writes nothing else.
C27_NoFetchNoWrite ==
    [][/\ NeedsNoSnapshot(task') =>
              /\ last_shop_data' = last_shop_data
              /\ task'.origin = NoOrigin
       /\ (night' # night) =>
              /\ last_shop_data' = last_shop_data
              /\ task' = task
       /\ (BareSearch(task') /\ task' # task) =>
              /\ task'.pc = "done"
              /\ chat'[task'.msg] = Message(UsageText, NoKeyboard)
       /\ BareSearch(task) =>
              /\ task' \in {task, IdleTask}
              /\ chat'[task.msg] = chat[task.msg]]_vars

\* /search without an argument has ended while the cache held a snapshot.
C27_Witness ==
    /\ Ended
    /\ BareSearch(task)
    /\ Shown.text = UsageText
    /\ Truthy(last_shop_data)

\* C28: for one snapshot, the statistics and the top list show the same date
\* as the listing of that snapshot, whatever the snapshot's date is (a string
\* longer than 10 characters, a string of at most 10 characters, missing).
C28_ViewsShowOneDate ==
    ((Called("get_shop_stats") \/ Called("get_top_items"))
         /\ out.value.kind \in {"stats", "top"}
         /\ (input.data.hasDate => IsStr(input.data.date))) =>
        out.value.date = format_shop_text(input.data, "all").date

====
